---- MODULE Spec2Model ----
(***************************************************************************)
(* Verification model of the network-service-mesh broker                   *)
(* (plugins/nsmserver/nsmserver_client.go).                                *)
(*                                                                         *)
(* SpecBroker  : RequestConnection and cleanConnectionRequest running      *)
(*               concurrently over the registry, the endpoint store and    *)
(*               the clientConnections table.                              *)
(* SpecSockets : the device-plugin side, Allocate calls and the            *)
(*               startClientServer tasks they spawn, with the unbuffered   *)
(*               stop channels and the socket files.                       *)
(* SpecAllocate: one Allocate call at a time, for batches of container     *)
(*               requests over the device ids of the table.                *)
(* SpecWatch   : ListAndWatch running beside one Allocate call at a time.  *)
(* SpecRegistry: concurrent calls of the dataplaneStore methods            *)
(*               (Add, Get, Delete, List).                                 *)
(* SpecNse     : the example endpoint process (cmd/examples/nse/nse.go):   *)
(*               main, the goroutine that serves its connection server,    *)
(*               and the calls the server handles.                         *)
(***************************************************************************)
EXTENDS Integers, Sequences, FiniteSets, TLC

VARIABLES
    networkServices,    \* objectStore: names of the registered network services
    endpointStore,      \* NetworkServiceEndpoint objects known to the API server
    clientConnections,  \* n.clientConnections: RequestId -> (service -> clientNetworkService)
    mu,                 \* n.RWMutex: NoHolder, or the call holding it exclusively
    rc,                 \* RequestConnection calls, one slot per concurrent caller
    clean,              \* cleanConnectionRequest calls, one slot per concurrent caller
    lastAccepted,       \* history: the request of the latest reply if it was accepted
    nsmSockets,         \* n.nsmSockets: device id -> nsmSocket
    alloc,              \* Allocate calls, one slot per concurrent caller
    tasks,              \* the startClientServer goroutines, in the order they were started
    chans,              \* the stop channels made so far: chans[i].closed
    sockFile,           \* socket path -> 0 (no file), Stale, or the task whose listener made it
    reserved,           \* device allocations admitted so far (bounds the model)
    panic,              \* NoPanic, or the run-time panic that ended the process
    dataplanes,         \* d.dataplanes: registered name -> *Dataplane
    storeLock,          \* d.RWMutex: its writer, or NoHolder, and its readers
    storeCalls,         \* calls of the dataplaneStore methods, one slot per caller
    history,            \* history: the Add and Delete calls in the order they took effect
    watch,              \* the ListAndWatch call
    stream,             \* the stream of the watcher: broken, and the last response it got
    nseMain,            \* nse.go: the statement main is at
    nseGo,              \* nse.go: the statement the goroutine of lines 196-201 is at
    wg,                 \* nse.go: the counter of the sync.WaitGroup of main
    grpcServer,         \* nse.go: the connection server: new, serving or stopped
    nseCalls,           \* nse.go: calls of the connection server's methods, one slot per client
    exited              \* nse.go: NotExited, or the way the process ended

brokerVars == <<networkServices, endpointStore, clientConnections, mu, rc, clean, lastAccepted>>
socketVars == <<nsmSockets, alloc, tasks, chans, sockFile, reserved, panic>>
storeVars == <<dataplanes, storeLock, storeCalls, history>>
watchVars == <<watch, stream>>
nseVars == <<nseMain, nseGo, wg, grpcServer, nseCalls, exited>>
vars == <<brokerVars, socketVars, storeVars, watchVars, nseVars>>

----------------------------------------------------------------------------
(* Bounds of the model *)

MaxEntries    == 2    \* entries of clientConnections in an initial table
MaxAllocs     == 3    \* device allocations admitted in one run
MaxContainers == 1    \* container requests of one Allocate call
MaxDevices    == 2    \* device ids of one container request
MaxBatch      == 2    \* container requests of one Allocate call of a batch

Callers  == {"rpc1", "rpc2"}      \* concurrent RequestConnection calls
Cleaners == {"clean1", "clean2"}  \* concurrent cleanConnectionRequest calls
NoHolder == "free"

RequestIds == {"w1", "w2"}
Services   == {"gold-network", "silver"}
DeviceIds  == {"devA", "devB"}     \* the ids of the device table
UnknownIds == {"devX"}             \* an id the table does not hold
ContendedIds == {"devA"}           \* the table id the concurrent Allocate calls ask for
AllocCallers == {"alloc1", "alloc2"}  \* concurrent Allocate calls
BatchCaller  == "alloc1"              \* the caller of the batches

Nil       == "nil"
NoReply   == [status |-> "none"]
NoRequest == [RequestId |-> Nil, NetworkServiceName |-> Nil]
NoList    == [err |-> Nil, items |-> {}]

ConnectionRequests == [RequestId : RequestIds, NetworkServiceName : Services]

\* the namespace the broker was started in (n.namespace)
namespace == "default"

\* the endpoint objects that may exist; service is the value of the
\* EndpointServiceLabel label of the object
EndpointUniverse ==
    { [name |-> "nse1", service |-> "gold-network", namespace |-> "default"],
      [name |-> "nse2", service |-> "gold-network", namespace |-> "other"] }

----------------------------------------------------------------------------
(* clientConnections tables *)

InnerMaps == UNION { [S -> [isInProgress : BOOLEAN]] : S \in SUBSET Services }

AllTables == UNION { [R -> InnerMaps] : R \in SUBSET RequestIds }

RECURSIVE SumOver(_, _)
SumOver(f, D) ==
    IF D = {} THEN 0
    ELSE LET x == CHOOSE y \in D : TRUE
         IN Cardinality(DOMAIN f[x]) + SumOver(f, D \ {x})

NumEntries(cc) == SumOver(cc, DOMAIN cc)

HasEntry(cc, rid, svc) == rid \in DOMAIN cc /\ svc \in DOMAIN cc[rid]

----------------------------------------------------------------------------
(* RequestConnection *)

GetNetworkService(store, name) == IF name \in store THEN name ELSE Nil

getNetworkServiceEndpoint(store, apiOk, networkService, ns) ==
    IF ~apiOk
    THEN [err |-> "list failed", items |-> {}]
    ELSE [err |-> Nil,
          items |-> { e \in store : e.service = networkService /\ e.namespace = ns }]

isInProgress(networkService) == networkService.isInProgress

ServiceNotFoundReply(cr) ==
    [Accepted |-> FALSE, ConnectionParameters |-> Nil,
     AdmissionError |-> <<"requested Network Service", cr.RequestId, "does not exist">>,
     status |-> "NotFound"]

\* InProgressReply returned with a nil error
InProgressReply_NilError(cr) ==
    [Accepted |-> FALSE, ConnectionParameters |-> Nil,
     AdmissionError |-> <<"dataplane for requested Network Service", cr.RequestId,
                          "is still being programmed, retry">>,
     status |-> "OK"]

InProgressReply(cr) ==
    [Accepted |-> FALSE, ConnectionParameters |-> Nil,
     AdmissionError |-> <<"dataplane for requested Network Service", cr.RequestId,
                          "is still being programmed, retry">>,
     status |-> "AlreadyExists"]

AcceptedReply ==
    [Accepted |-> TRUE, ConnectionParameters |-> "empty",
     AdmissionError |-> <<>>, status |-> "OK"]

QueryFailedReply(cr, err) ==
    [Accepted |-> FALSE, ConnectionParameters |-> Nil,
     AdmissionError |-> <<"connection request", cr.RequestId,
                          "failed to get a list of endpoints for requested Network Service",
                          cr.NetworkServiceName, "with error:", err>>,
     status |-> "Aborted"]

\* NoEndpointsReply with the message of the unknown-service reply
NoEndpointsReply_SameMessage(cr) ==
    [Accepted |-> FALSE, ConnectionParameters |-> Nil,
     AdmissionError |-> <<"requested Network Service", cr.RequestId, "does not exist">>,
     status |-> "NotFound"]

NoEndpointsReply(cr) ==
    [Accepted |-> FALSE, ConnectionParameters |-> Nil,
     AdmissionError |-> <<"connection request", cr.RequestId,
                          "failed no endpoints were found for requested Network Service",
                          cr.NetworkServiceName>>,
     status |-> "NotFound"]

\* DedupCheck with the in-progress test inverted
DedupCheck_Inverted(cc, cr) ==
    IF cr.RequestId \in DOMAIN cc
    THEN IF cr.NetworkServiceName \in DOMAIN cc[cr.RequestId]
         THEN IF ~isInProgress(cc[cr.RequestId][cr.NetworkServiceName])
              THEN InProgressReply(cr)
              ELSE AcceptedReply
         ELSE NoReply
    ELSE NoReply

\* lines 138-156: the reply to a duplicate request, NoReply for a new one
DedupCheck(cc, cr) ==
    IF cr.RequestId \in DOMAIN cc
    THEN IF cr.NetworkServiceName \in DOMAIN cc[cr.RequestId]
         THEN IF isInProgress(cc[cr.RequestId][cr.NetworkServiceName])
              THEN InProgressReply(cr)
              ELSE AcceptedReply
         ELSE NoReply
    ELSE NoReply

\* AdmissionCheck with the duplicate check made before the registry lookup
AdmissionCheck_DedupFirst(store, cc, cr) ==
    IF DedupCheck(cc, cr) # NoReply
    THEN DedupCheck(cc, cr)
    ELSE IF GetNetworkService(store, cr.NetworkServiceName) = Nil
         THEN ServiceNotFoundReply(cr)
         ELSE NoReply

\* AdmissionCheck that re-processes a completed request as a new one
AdmissionCheck_Reprocess(store, cc, cr) ==
    IF GetNetworkService(store, cr.NetworkServiceName) = Nil
    THEN ServiceNotFoundReply(cr)
    ELSE IF DedupCheck(cc, cr) = AcceptedReply THEN NoReply ELSE DedupCheck(cc, cr)

\* AdmissionCheck that goes from the registry lookup to the endpoint query
AdmissionCheck_SkipsDedup(store, cc, cr) ==
    IF GetNetworkService(store, cr.NetworkServiceName) = Nil
    THEN ServiceNotFoundReply(cr)
    ELSE NoReply

\* lines 124-157: registry lookup, then the duplicate check
AdmissionCheck(store, cc, cr) ==
    IF GetNetworkService(store, cr.NetworkServiceName) = Nil
    THEN ServiceNotFoundReply(cr)
    ELSE DedupCheck(cc, cr)

\* the table with an entry recorded for the request
WithEntry(cc, cr, inProgress) ==
    [r \in DOMAIN cc \cup {cr.RequestId} |->
        IF r = cr.RequestId
        THEN [s \in {cr.NetworkServiceName} |-> [isInProgress |-> inProgress]]
        ELSE cc[r]]

\* NewRequest that records the accepted request as in progress
NewRequest_RecordsInProgress(cc, cr, endpointList) ==
    IF endpointList.err # Nil
    THEN [reply |-> QueryFailedReply(cr, endpointList.err), clientConnections |-> cc]
    ELSE IF Cardinality(endpointList.items) = 0
         THEN [reply |-> NoEndpointsReply(cr), clientConnections |-> cc]
         ELSE [reply |-> AcceptedReply, clientConnections |-> WithEntry(cc, cr, TRUE)]

\* NewRequest that records the accepted request as completed
NewRequest_RecordsCompleted(cc, cr, endpointList) ==
    IF endpointList.err # Nil
    THEN [reply |-> QueryFailedReply(cr, endpointList.err), clientConnections |-> cc]
    ELSE IF Cardinality(endpointList.items) = 0
         THEN [reply |-> NoEndpointsReply(cr), clientConnections |-> cc]
         ELSE [reply |-> AcceptedReply, clientConnections |-> WithEntry(cc, cr, FALSE)]

\* NewRequest that looks at the length of the list before the error
NewRequest_LengthFirst(cc, cr, endpointList) ==
    IF Cardinality(endpointList.items) = 0
    THEN [reply |-> NoEndpointsReply(cr), clientConnections |-> cc]
    ELSE IF endpointList.err # Nil
         THEN [reply |-> QueryFailedReply(cr, endpointList.err), clientConnections |-> cc]
         ELSE [reply |-> AcceptedReply, clientConnections |-> cc]

\* lines 160-279: the decision for a new request from the endpoint list, and
\* the table it leaves (the pipeline that recorded the request is disabled)
NewRequest(cc, cr, endpointList) ==
    IF endpointList.err # Nil
    THEN [reply |-> QueryFailedReply(cr, endpointList.err), clientConnections |-> cc]
    ELSE IF Cardinality(endpointList.items) = 0
         THEN [reply |-> NoEndpointsReply(cr), clientConnections |-> cc]
         ELSE [reply |-> AcceptedReply, clientConnections |-> cc]

IdleCall == [pc |-> "idle", cr |-> NoRequest, reply |-> NoReply,
             endpointList |-> NoList, follows |-> FALSE]

Accepts(reply, cr) == IF reply.Accepted THEN cr ELSE NoRequest

\* the call arrives and runs up to its first reply or to the endpoint query
RequestConnectionBegin(c, cr) ==
    /\ rc[c].pc = "idle"
    /\ LET r == AdmissionCheck(networkServices, clientConnections, cr)
       IN  IF r = NoReply
           THEN /\ rc' = [rc EXCEPT ![c] = [pc |-> "query", cr |-> cr, reply |-> NoReply,
                                            endpointList |-> NoList,
                                            follows |-> (lastAccepted = cr)]]
                /\ UNCHANGED lastAccepted
           ELSE /\ rc' = [rc EXCEPT ![c] = [pc |-> "done", cr |-> cr, reply |-> r,
                                            endpointList |-> NoList,
                                            follows |-> (lastAccepted = cr)]]
                /\ lastAccepted' = Accepts(r, cr)
    /\ UNCHANGED <<networkServices, endpointStore, clientConnections, mu, clean>>
    /\ UNCHANGED socketVars
    /\ UNCHANGED storeVars
    /\ UNCHANGED watchVars
    /\ UNCHANGED nseVars

\* the endpoint query returns and the call replies
RequestConnectionQuery(c, apiOk) ==
    /\ rc[c].pc = "query"
    /\ LET l == getNetworkServiceEndpoint(endpointStore, apiOk,
                                          rc[c].cr.NetworkServiceName, namespace)
           d == NewRequest(clientConnections, rc[c].cr, l)
       IN  /\ rc' = [rc EXCEPT ![c].pc = "done", ![c].reply = d.reply,
                               ![c].endpointList = l]
           /\ clientConnections' = d.clientConnections
           /\ lastAccepted' = Accepts(d.reply, rc[c].cr)
    /\ UNCHANGED <<networkServices, endpointStore, mu, clean>>
    /\ UNCHANGED socketVars
    /\ UNCHANGED storeVars
    /\ UNCHANGED watchVars
    /\ UNCHANGED nseVars

\* the reply is delivered to the caller
RequestConnectionReturn(c) ==
    /\ rc[c].pc = "done"
    /\ rc' = [rc EXCEPT ![c] = IdleCall]
    /\ UNCHANGED <<networkServices, endpointStore, clientConnections, mu, clean, lastAccepted>>
    /\ UNCHANGED socketVars
    /\ UNCHANGED storeVars
    /\ UNCHANGED watchVars
    /\ UNCHANGED nseVars

----------------------------------------------------------------------------
(* cleanConnectionRequest *)

\* removed records whether the delete found an entry for the request id
IdleClean == [pc |-> "idle", requestID |-> Nil, removed |-> FALSE]

\* a delete that drops every request id
DeleteRequest_AllRequests(cc, requestID) ==
    IF requestID \in DOMAIN cc THEN [r \in {} |-> cc[r]] ELSE cc

\* delete(n.clientConnections, requestID)
DeleteRequest(cc, requestID) == [r \in DOMAIN cc \ {requestID} |-> cc[r]]

cleanConnectionRequestLock(k, requestID) ==
    /\ clean[k].pc = "idle"
    /\ mu = NoHolder
    /\ mu' = k
    /\ clean' = [clean EXCEPT ![k] = [pc |-> "locked", requestID |-> requestID,
                                       removed |-> FALSE]]
    /\ UNCHANGED <<networkServices, endpointStore, clientConnections, rc, lastAccepted>>
    /\ UNCHANGED socketVars
    /\ UNCHANGED storeVars
    /\ UNCHANGED watchVars
    /\ UNCHANGED nseVars

cleanConnectionRequestDelete(k) ==
    /\ clean[k].pc = "locked"
    /\ clientConnections' = DeleteRequest(clientConnections, clean[k].requestID)
    /\ clean' = [clean EXCEPT ![k].pc = "deleted",
                               ![k].removed = (clean[k].requestID \in DOMAIN clientConnections)]
    /\ lastAccepted' = NoRequest
    /\ rc' = [c \in Callers |-> [rc[c] EXCEPT !.follows = FALSE]]
    /\ UNCHANGED <<networkServices, endpointStore, mu>>
    /\ UNCHANGED socketVars
    /\ UNCHANGED storeVars
    /\ UNCHANGED watchVars
    /\ UNCHANGED nseVars

cleanConnectionRequestUnlock(k) ==
    /\ clean[k].pc = "deleted"
    /\ mu' = NoHolder
    /\ clean' = [clean EXCEPT ![k] = IdleClean]
    /\ UNCHANGED <<networkServices, endpointStore, clientConnections, rc, lastAccepted>>
    /\ UNCHANGED socketVars
    /\ UNCHANGED storeVars
    /\ UNCHANGED watchVars
    /\ UNCHANGED nseVars

----------------------------------------------------------------------------
(* Device table *)

SocketBaseDir == "SocketBaseDir"
ServerSock    == "ServerSock"
Stale         == -1
NoPanic       == "none"

Device(id) == [ID |-> id, Health |-> "Healthy"]

\* path.Join(SocketBaseDir, fmt.Sprintf("nsm-%s", id)): the directory, then
\* the name as its prefix and the id
HostPath(id) == <<SocketBaseDir, "nsm-", id>>

\* path.Join(mount.HostPath, ServerSock)
SocketPath(id) == Append(HostPath(id), ServerSock)

Mount(id) == [ContainerPath |-> SocketBaseDir, HostPath |-> HostPath(id), ReadOnly |-> FALSE]

\* an entry of the table before any Allocate of its id
UnusedSocket(id) ==
    [device |-> Device(id), socketPath |-> <<>>, stopChannel |-> 0, allocated |-> FALSE]

\* AllocatedSocket that leaves the allocated flag unset
AllocatedSocket_NotAllocated(id, ch) ==
    [device |-> Device(id), socketPath |-> SocketPath(id), stopChannel |-> ch,
     allocated |-> FALSE]

\* AllocatedSocket that registers the device as unhealthy
AllocatedSocket_Unhealthy(id, ch) ==
    [device |-> [ID |-> id, Health |-> "Unhealthy"], socketPath |-> SocketPath(id),
     stopChannel |-> ch, allocated |-> TRUE]

\* lines 335-340
AllocatedSocket(id, ch) ==
    [device |-> Device(id), socketPath |-> SocketPath(id), stopChannel |-> ch,
     allocated |-> TRUE]

----------------------------------------------------------------------------
(* Allocate *)

RECURSIVE SeqsUpTo(_, _)
SeqsUpTo(S, n) ==
    IF n = 0 THEN { <<>> }
    ELSE LET shorter == SeqsUpTo(S, n - 1)
         IN  shorter \cup { Append(q, x) : q \in shorter, x \in S }

\* req.DevicesIDs of one container: the kubelet names a device at most once
DevicesIDs ==
    { q \in SeqsUpTo(ContendedIds \cup UnknownIds, MaxDevices) :
        \A i, j \in DOMAIN q : i # j => q[i] # q[j] }

\* reqs.ContainerRequests, each its DevicesIDs
AllocateRequests == SeqsUpTo(DevicesIDs, MaxContainers) \ { <<>> }

RECURSIVE KnownCount(_)
KnownCount(reqs) ==
    IF reqs = <<>> THEN 0
    ELSE Cardinality({ i \in DOMAIN Head(reqs) : Head(reqs)[i] \in DeviceIds })
         + KnownCount(Tail(reqs))

\* made is history: the positions of the request whose directory was made,
\* each with the server task started for it
IdleAlloc == [pc |-> "idle", reqs |-> <<>>, ci |-> 0, di |-> 0, mounts |-> <<>>,
              responses |-> <<>>, ch |-> 0, made |-> {}]

\* NextDevice with mounts declared outside the loop over the container requests
RECURSIVE NextDevice_KeepsMounts(_)
NextDevice_KeepsMounts(st) ==
    IF st.ci > Len(st.reqs)
    THEN [st EXCEPT !.pc = "return"]
    ELSE IF st.di > Len(st.reqs[st.ci])
         THEN NextDevice_KeepsMounts(
                 [st EXCEPT !.responses = Append(@, [Mounts |-> st.mounts]),
                            !.ci = @ + 1, !.di = 1])
         ELSE [st EXCEPT !.pc = "check"]

\* the loops of lines 317 and 319: close the container requests that are
\* exhausted (line 348-351) and stop at the next device id, or at the return
RECURSIVE NextDevice(_)
NextDevice(st) ==
    IF st.ci > Len(st.reqs)
    THEN [st EXCEPT !.pc = "return"]
    ELSE IF st.di > Len(st.reqs[st.ci])
         THEN NextDevice([st EXCEPT !.responses = Append(@, [Mounts |-> st.mounts]),
                                    !.mounts = <<>>, !.ci = @ + 1, !.di = 1])
         ELSE [st EXCEPT !.pc = "check"]

CurrentId(st) == st.reqs[st.ci][st.di]

AllocateCall(a, reqs) ==
    /\ panic = NoPanic
    /\ alloc[a].pc = "idle"
    /\ reserved + KnownCount(reqs) <= MaxAllocs
    /\ reserved' = reserved + KnownCount(reqs)
    /\ alloc' = [alloc EXCEPT ![a] =
                    NextDevice([IdleAlloc EXCEPT !.reqs = reqs, !.ci = 1, !.di = 1])]
    /\ UNCHANGED <<nsmSockets, tasks, chans, sockFile, panic>>
    /\ UNCHANGED brokerVars
    /\ UNCHANGED storeVars
    /\ UNCHANGED watchVars
    /\ UNCHANGED nseVars

\* lines 320-321
AllocateCheck(a) ==
    /\ panic = NoPanic
    /\ alloc[a].pc = "check"
    /\ LET id == CurrentId(alloc[a])
       IN  alloc' = [alloc EXCEPT ![a] =
                IF id \notin DOMAIN nsmSockets
                THEN NextDevice([alloc[a] EXCEPT !.di = @ + 1])
                ELSE IF nsmSockets[id].allocated
                     THEN [alloc[a] EXCEPT !.pc = "evalStop"]
                     ELSE [alloc[a] EXCEPT !.pc = "register"]]
    /\ UNCHANGED <<nsmSockets, tasks, chans, sockFile, reserved, panic>>
    /\ UNCHANGED brokerVars
    /\ UNCHANGED storeVars
    /\ UNCHANGED watchVars
    /\ UNCHANGED nseVars

\* line 325: the channel of the entry is read, then the send blocks
AllocateStopEval(a) ==
    /\ panic = NoPanic
    /\ alloc[a].pc = "evalStop"
    /\ alloc' = [alloc EXCEPT ![a].pc = "stop",
                              ![a].ch = nsmSockets[CurrentId(alloc[a])].stopChannel]
    /\ UNCHANGED <<nsmSockets, tasks, chans, sockFile, reserved, panic>>
    /\ UNCHANGED brokerVars
    /\ UNCHANGED storeVars
    /\ UNCHANGED watchVars
    /\ UNCHANGED nseVars

\* line 327: the channel of the entry is read again, then the receive blocks
AllocateAckEval(a) ==
    /\ panic = NoPanic
    /\ alloc[a].pc = "evalAck"
    /\ alloc' = [alloc EXCEPT ![a].pc = "ack",
                              ![a].ch = nsmSockets[CurrentId(alloc[a])].stopChannel]
    /\ UNCHANGED <<nsmSockets, tasks, chans, sockFile, reserved, panic>>
    /\ UNCHANGED brokerVars
    /\ UNCHANGED storeVars
    /\ UNCHANGED watchVars
    /\ UNCHANGED nseVars

\* line 328: close of the channel the entry holds now
AllocateClose(a) ==
    /\ panic = NoPanic
    /\ alloc[a].pc = "close"
    /\ LET ch == nsmSockets[CurrentId(alloc[a])].stopChannel
       IN  IF ch = 0
           THEN /\ panic' = "close of nil channel"
                /\ UNCHANGED <<alloc, chans>>
           ELSE IF chans[ch].closed
                THEN /\ panic' = "close of closed channel"
                     /\ UNCHANGED <<alloc, chans>>
                ELSE /\ chans' = [chans EXCEPT ![ch].closed = TRUE]
                     /\ alloc' = [alloc EXCEPT ![a].pc = "register", ![a].ch = 0]
                     /\ UNCHANGED panic
    /\ UNCHANGED <<nsmSockets, tasks, sockFile, reserved>>
    /\ UNCHANGED brokerVars
    /\ UNCHANGED storeVars
    /\ UNCHANGED watchVars
    /\ UNCHANGED nseVars

\* lines 330-340: the entry is replaced, with a channel of its own
AllocateRegister(a) ==
    /\ panic = NoPanic
    /\ alloc[a].pc = "register"
    /\ chans' = Append(chans, [closed |-> FALSE])
    /\ nsmSockets' = [nsmSockets EXCEPT ![CurrentId(alloc[a])] =
                        AllocatedSocket(CurrentId(alloc[a]), Len(chans) + 1)]
    /\ alloc' = [alloc EXCEPT ![a].pc = "mkdir"]
    /\ UNCHANGED <<tasks, sockFile, reserved, panic>>
    /\ UNCHANGED brokerVars
    /\ UNCHANGED storeVars
    /\ UNCHANGED watchVars
    /\ UNCHANGED nseVars

SpawnedTask(id) ==
    [id |-> id, pc |-> "spawned", client |-> UnusedSocket(id), serving |-> FALSE,
     failed |-> "no"]

\* lines 341-345: with the directory made, the server task is started and
\* the mount is added; without it the device id is passed over
AllocateMkdir(a, mkdirOk) ==
    /\ panic = NoPanic
    /\ alloc[a].pc = "mkdir"
    /\ LET id == CurrentId(alloc[a])
       IN  IF mkdirOk
           THEN /\ tasks' = Append(tasks, SpawnedTask(id))
                /\ alloc' = [alloc EXCEPT ![a] =
                                NextDevice([alloc[a] EXCEPT
                                    !.mounts = Append(@, Mount(id)),
                                    !.made = @ \cup {[ci |-> alloc[a].ci, di |-> alloc[a].di,
                                                      task |-> Len(tasks) + 1]},
                                    !.di = @ + 1])]
           ELSE /\ alloc' = [alloc EXCEPT ![a] = NextDevice([alloc[a] EXCEPT !.di = @ + 1])]
                /\ UNCHANGED tasks
    /\ UNCHANGED <<nsmSockets, chans, sockFile, reserved, panic>>
    /\ UNCHANGED brokerVars
    /\ UNCHANGED storeVars
    /\ UNCHANGED watchVars
    /\ UNCHANGED nseVars

\* line 353
AllocateReturn(a) ==
    /\ panic = NoPanic
    /\ alloc[a].pc = "return"
    /\ alloc' = [alloc EXCEPT ![a] = IdleAlloc]
    /\ UNCHANGED <<nsmSockets, tasks, chans, sockFile, reserved, panic>>
    /\ UNCHANGED brokerVars
    /\ UNCHANGED storeVars
    /\ UNCHANGED watchVars
    /\ UNCHANGED nseVars

----------------------------------------------------------------------------
(* startClientServer *)

Tasks == DOMAIN tasks

\* line 415: client is a copy of the table entry
ServerStart(t) ==
    /\ panic = NoPanic
    /\ tasks[t].pc = "spawned"
    /\ tasks' = [tasks EXCEPT ![t].pc = "cleanup", ![t].client = nsmSockets[tasks[t].id]]
    /\ UNCHANGED <<nsmSockets, alloc, chans, sockFile, reserved, panic>>
    /\ UNCHANGED brokerVars
    /\ UNCHANGED storeVars
    /\ UNCHANGED watchVars
    /\ UNCHANGED nseVars

\* the early return of lines 419-420, 427-428 and 444-445
ServerFails(task, step) ==
    [task EXCEPT !.client.allocated = FALSE, !.failed = step, !.pc = "returned"]

\* tools.SocketCleanup: a socket file at the path is removed
SocketCleanup(files, path) == [files EXCEPT ![path] = 0]

\* lines 418-421
ServerCleanup(t, cleanupOk) ==
    /\ panic = NoPanic
    /\ tasks[t].pc = "cleanup"
    /\ IF cleanupOk
       THEN /\ sockFile' = SocketCleanup(sockFile, tasks[t].client.socketPath)
            /\ tasks' = [tasks EXCEPT ![t].pc = "listen"]
       ELSE /\ tasks' = [tasks EXCEPT ![t] = ServerFails(tasks[t], "cleanup")]
            /\ UNCHANGED sockFile
    /\ UNCHANGED <<nsmSockets, alloc, chans, reserved, panic>>
    /\ UNCHANGED brokerVars
    /\ UNCHANGED storeVars
    /\ UNCHANGED watchVars
    /\ UNCHANGED nseVars

\* lines 423-439: the listener is bound to the path, which must be free,
\* and the gRPC server is left serving on it in a goroutine of its own
ServerListen(t, listenOk) ==
    /\ panic = NoPanic
    /\ tasks[t].pc = "listen"
    /\ IF listenOk /\ sockFile[tasks[t].client.socketPath] = 0
       THEN /\ sockFile' = [sockFile EXCEPT ![tasks[t].client.socketPath] = t]
            /\ tasks' = [tasks EXCEPT ![t].pc = "probe", ![t].serving = TRUE]
       ELSE /\ tasks' = [tasks EXCEPT ![t] = ServerFails(tasks[t], "listen")]
            /\ UNCHANGED sockFile
    /\ UNCHANGED <<nsmSockets, alloc, chans, reserved, panic>>
    /\ UNCHANGED brokerVars
    /\ UNCHANGED storeVars
    /\ UNCHANGED watchVars
    /\ UNCHANGED nseVars

\* tools.SocketOperationCheck: a connection to the path reaches the server
\* whose listener made the file
Reachable(files, ts, path) ==
    /\ files[path] \in DOMAIN ts
    /\ ts[files[path]].serving

\* lines 441-448
ServerProbe(t, dialOk) ==
    /\ panic = NoPanic
    /\ tasks[t].pc = "probe"
    /\ tasks' = [tasks EXCEPT ![t] =
                    IF dialOk /\ Reachable(sockFile, tasks, tasks[t].client.socketPath)
                    THEN [tasks[t] EXCEPT !.pc = "wait"]
                    ELSE ServerFails(tasks[t], "probe")]
    /\ UNCHANGED <<nsmSockets, alloc, chans, sockFile, reserved, panic>>
    /\ UNCHANGED brokerVars
    /\ UNCHANGED storeVars
    /\ UNCHANGED watchVars
    /\ UNCHANGED nseVars

----------------------------------------------------------------------------
(* The stop channels: unbuffered, so a send and a receive complete together *)

\* the channel an Allocate call or a server task is blocked sending on, or 0
AllocSendsOn(a) == IF alloc[a].pc = "stop" THEN alloc[a].ch ELSE 0
TaskSendsOn(t)  == IF tasks[t].pc = "ack" THEN tasks[t].client.stopChannel ELSE 0

\* the channel it is blocked receiving from, or 0
AllocReceivesOn(a) == IF alloc[a].pc = "ack" THEN alloc[a].ch ELSE 0
TaskReceivesOn(t)  == IF tasks[t].pc = "wait" THEN tasks[t].client.stopChannel ELSE 0

\* the goroutines that use the channels: the Allocate calls and the tasks
Goroutines ==
    { [kind |-> "alloc", a |-> a, t |-> 0] : a \in AllocCallers }
    \cup { [kind |-> "task", a |-> "none", t |-> t] : t \in Tasks }

SendsOn(g)    == IF g.kind = "alloc" THEN AllocSendsOn(g.a) ELSE TaskSendsOn(g.t)
ReceivesOn(g) == IF g.kind = "alloc" THEN AllocReceivesOn(g.a) ELSE TaskReceivesOn(g.t)

\* after its send: line 325 to 327, line 456 to the return
AllocSent(st) == [st EXCEPT !.pc = "evalAck", !.ch = 0]
TaskSent(task) == [task EXCEPT !.pc = "returned"]

\* after its receive: line 327 to 328, lines 451-455
AllocReceived(st) == [st EXCEPT !.pc = "close", !.ch = 0]
TaskReceived(task) == [task EXCEPT !.pc = "ack", !.client.allocated = FALSE]

AfterReceive(al, ts, g) ==
    [alloc |-> IF g.kind = "alloc" THEN [al EXCEPT ![g.a] = AllocReceived(@)] ELSE al,
     tasks |-> IF g.kind = "task" THEN [ts EXCEPT ![g.t] = TaskReceived(@)] ELSE ts]

AfterSend(al, ts, g) ==
    [alloc |-> IF g.kind = "alloc" THEN [al EXCEPT ![g.a] = AllocSent(@)] ELSE al,
     tasks |-> IF g.kind = "task" THEN [ts EXCEPT ![g.t] = TaskSent(@)] ELSE ts]

\* a send on a channel meets a receive on the same channel
Rendezvous(s, r) ==
    /\ panic = NoPanic
    /\ s # r
    /\ SendsOn(s) # 0
    /\ SendsOn(s) = ReceivesOn(r)
    /\ ~chans[SendsOn(s)].closed
    /\ LET sent == AfterSend(alloc, tasks, s)
           both == AfterReceive(sent.alloc, sent.tasks, r)
       IN  /\ alloc' = both.alloc
           /\ tasks' = both.tasks
    /\ UNCHANGED <<nsmSockets, chans, sockFile, reserved, panic>>
    /\ UNCHANGED brokerVars
    /\ UNCHANGED storeVars
    /\ UNCHANGED watchVars
    /\ UNCHANGED nseVars

\* a goroutine blocked on a channel that is closed: a receive yields the
\* zero value at once, a send panics
OnClosedChannel(g) ==
    /\ panic = NoPanic
    /\ IF ReceivesOn(g) # 0
       THEN /\ chans[ReceivesOn(g)].closed
            /\ alloc' = AfterReceive(alloc, tasks, g).alloc
            /\ tasks' = AfterReceive(alloc, tasks, g).tasks
            /\ UNCHANGED panic
       ELSE /\ SendsOn(g) # 0
            /\ chans[SendsOn(g)].closed
            /\ panic' = "send on closed channel"
            /\ UNCHANGED <<alloc, tasks>>
    /\ UNCHANGED <<nsmSockets, chans, sockFile, reserved>>
    /\ UNCHANGED brokerVars
    /\ UNCHANGED storeVars
    /\ UNCHANGED watchVars
    /\ UNCHANGED nseVars

\* the accesses of n.nsmSockets take no lock: a write of the map that runs
\* together with another access of it may end the process with the run-time's
\* "concurrent map read and map write" / "concurrent map writes"
WritesMap(a) == alloc[a].pc = "register"
AllocReadsMap(a) == alloc[a].pc \in {"check", "evalStop", "evalAck", "close"}
TaskReadsMap(t) == tasks[t].pc = "spawned"

MapRaceFatal(a) ==
    /\ panic = NoPanic
    /\ WritesMap(a)
    /\ \E g \in Goroutines :
          IF g.kind = "alloc"
          THEN g.a # a /\ (WritesMap(g.a) \/ AllocReadsMap(g.a))
          ELSE TaskReadsMap(g.t)
    /\ panic' = "concurrent map access"
    /\ UNCHANGED <<nsmSockets, alloc, tasks, chans, sockFile, reserved>>
    /\ UNCHANGED brokerVars
    /\ UNCHANGED storeVars
    /\ UNCHANGED watchVars
    /\ UNCHANGED nseVars

----------------------------------------------------------------------------
(* dataplaneStore: the registry of dataplane providers *)

MaxOps == 3    \* Add and Delete calls of one run

StoreCallers   == {"store1", "store2"}   \* concurrent callers of the store
DataplaneNames == {"dp1", "dp2"}
SocketLocations == {"sockA", "sockB"}

\* the *Dataplane values handed to Add
Dataplanes == [RegisteredName : DataplaneNames, SocketLocation : SocketLocations]

\* the nil *Dataplane
NilDataplane == [RegisteredName |-> Nil, SocketLocation |-> Nil]

\* map[string]*Dataplane{}
NoDataplanes == [n \in {} |-> Nil]

UnlockedStore == [writer |-> NoHolder, readers |-> {}]

\* the calls: Add(dp), Get(registeredName), Delete(registeredName), List()
StoreCalls ==
    [op : {"Add"}, arg : Dataplanes]
    \cup [op : {"Get", "Delete"}, arg : DataplaneNames]
    \cup [op : {"List"}, arg : {Nil}]

IdleStoreCall == [pc |-> "idle", op |-> Nil, arg |-> Nil, result |-> Nil]

Mutates(op) == op \in {"Add", "Delete"}

\* LockMode with the two readers taking the lock shared (d.RLock())
LockMode_ReadersShare(op) == IF Mutates(op) THEN "Lock" ELSE "RLock"

\* lines 507, 519, 531, 541: each method calls d.Lock()
LockMode(op) == "Lock"

\* sync.RWMutex: Lock waits for the writer and the readers to leave, RLock
\* for the writer
CanLock(lock, mode) ==
    /\ lock.writer = NoHolder
    /\ mode = "Lock" => lock.readers = {}

Locked(lock, p, mode) ==
    IF mode = "Lock" THEN [lock EXCEPT !.writer = p]
    ELSE [lock EXCEPT !.readers = @ \cup {p}]

\* the deferred d.Unlock() (d.RUnlock() of a reader)
Unlocked(lock, p) ==
    [writer |-> IF lock.writer = p THEN NoHolder ELSE lock.writer,
     readers |-> lock.readers \ {p}]

\* Add that replaces the stored descriptor
StoreAdd_Overwrites(dps, dp) ==
    [n \in DOMAIN dps \cup {dp.RegisteredName} |->
        IF n = dp.RegisteredName THEN dp ELSE dps[n]]

\* lines 510-513
StoreAdd(dps, dp) ==
    IF dp.RegisteredName \notin DOMAIN dps
    THEN [n \in DOMAIN dps \cup {dp.RegisteredName} |->
            IF n = dp.RegisteredName THEN dp ELSE dps[n]]
    ELSE dps

\* lines 522-526
StoreGet(dps, registeredName) ==
    IF registeredName \notin DOMAIN dps THEN NilDataplane ELSE dps[registeredName]

\* StoreDelete with its test inverted
StoreDelete_Inverted(dps, registeredName) ==
    IF registeredName \notin DOMAIN dps
    THEN [n \in DOMAIN dps \ {registeredName} |-> dps[n]]
    ELSE dps

\* lines 534-536
StoreDelete(dps, registeredName) ==
    IF registeredName \in DOMAIN dps
    THEN [n \in DOMAIN dps \ {registeredName} |-> dps[n]]
    ELSE dps

\* the orders in which a range over the map may visit its keys
RECURSIVE Orders(_)
Orders(S) ==
    IF S = {} THEN { <<>> }
    ELSE UNION { { <<x>> \o q : q \in Orders(S \ {x}) } : x \in S }

\* lines 543-547, for one order of the range
StoreList(dps, order) == [i \in DOMAIN order |-> dps[order[i]]]

PendingMutations == Cardinality({ q \in StoreCallers : Mutates(storeCalls[q].op) })

\* the method is called and takes the lock
StoreLock(p, call) ==
    /\ storeCalls[p].pc = "idle"
    /\ Mutates(call.op) => Len(history) + PendingMutations < MaxOps
    /\ CanLock(storeLock, LockMode(call.op))
    /\ storeLock' = Locked(storeLock, p, LockMode(call.op))
    /\ storeCalls' = [storeCalls EXCEPT ![p] = [pc |-> "locked", op |-> call.op,
                                      arg |-> call.arg, result |-> Nil]]
    /\ UNCHANGED <<dataplanes, history>>
    /\ UNCHANGED brokerVars
    /\ UNCHANGED socketVars
    /\ UNCHANGED watchVars
    /\ UNCHANGED nseVars

\* the body of the method, on the map
StoreBody(p, order) ==
    /\ storeCalls[p].pc = "locked"
    /\ LET op == storeCalls[p].op
           arg == storeCalls[p].arg
       IN  /\ dataplanes' = IF op = "Add" THEN StoreAdd(dataplanes, arg)
                            ELSE IF op = "Delete" THEN StoreDelete(dataplanes, arg)
                            ELSE dataplanes
           /\ storeCalls' = [storeCalls EXCEPT ![p].pc = "return",
                           ![p].result = IF op = "Get" THEN StoreGet(dataplanes, arg)
                                         ELSE IF op = "List"
                                              THEN StoreList(dataplanes, order)
                                              ELSE Nil]
           /\ history' = IF Mutates(op) THEN Append(history, [op |-> op, arg |-> arg])
                         ELSE history
    /\ UNCHANGED storeLock
    /\ UNCHANGED brokerVars
    /\ UNCHANGED socketVars
    /\ UNCHANGED watchVars
    /\ UNCHANGED nseVars

\* the return: the deferred unlock runs and the caller has the result
StoreReturn(p) ==
    /\ storeCalls[p].pc = "return"
    /\ storeLock' = Unlocked(storeLock, p)
    /\ storeCalls' = [storeCalls EXCEPT ![p] = IdleStoreCall]
    /\ UNCHANGED <<dataplanes, history>>
    /\ UNCHANGED brokerVars
    /\ UNCHANGED socketVars
    /\ UNCHANGED watchVars
    /\ UNCHANGED nseVars

----------------------------------------------------------------------------
(* ListAndWatch *)

MaxRounds == 1    \* rounds of the loop of ListAndWatch after the first

\* ended is history: when the response waiting to be sent was built, a server
\* task had failed to start and a server task had been stopped
IdleWatch == [pc |-> "idle", resp |-> <<>>, rounds |-> 0, failed |-> FALSE, ended |-> FALSE]

\* the server tasks that have returned: after a failed start, after a stop
FailedTasks == { t \in Tasks : tasks[t].pc = "returned" /\ tasks[t].failed # "no" }
StoppedTasks == { t \in Tasks : tasks[t].pc = "returned" /\ tasks[t].failed = "no" }

OpenStream == [broken |-> FALSE, last |-> <<>>]

\* lines 359-362, for one order of the range over the map
ListDevices(sockets, order) == [i \in DOMAIN order |-> sockets[order[i]].device]

\* s.Send(resp): the response reaches the watcher, or the stream is broken
\* and the error is returned
Send(st, resp, sendOk) ==
    IF sendOk /\ ~st.broken THEN [st EXCEPT !.last = resp]
    ELSE [st EXCEPT !.broken = TRUE]

\* the kubelet calls ListAndWatch
ListAndWatchCall ==
    /\ panic = NoPanic
    /\ watch.pc = "idle"
    /\ watch' = [watch EXCEPT !.pc = "range"]
    /\ UNCHANGED stream
    /\ UNCHANGED brokerVars
    /\ UNCHANGED socketVars
    /\ UNCHANGED storeVars
    /\ UNCHANGED nseVars

\* lines 359-362: the response is built from the table, with no lock taken
ListAndWatchRange(order) ==
    /\ panic = NoPanic
    /\ watch.pc = "range"
    /\ watch' = [watch EXCEPT !.pc = "send", !.resp = ListDevices(nsmSockets, order),
                               !.ended = (FailedTasks # {} /\ StoppedTasks # {})]
    /\ UNCHANGED stream
    /\ UNCHANGED brokerVars
    /\ UNCHANGED socketVars
    /\ UNCHANGED storeVars
    /\ UNCHANGED nseVars

\* lines 363-365: the response is sent; an error is logged and the loop goes on
ListAndWatchSend(sendOk) ==
    /\ panic = NoPanic
    /\ watch.pc = "send"
    /\ stream' = Send(stream, watch.resp, sendOk)
    /\ watch' = [watch EXCEPT !.pc = "sleep", !.failed = @ \/ stream'.broken,
                               !.ended = FALSE]
    /\ UNCHANGED brokerVars
    /\ UNCHANGED socketVars
    /\ UNCHANGED storeVars
    /\ UNCHANGED nseVars

\* line 366 and the next round of the loop of line 358
ListAndWatchSleep ==
    /\ panic = NoPanic
    /\ watch.pc = "sleep"
    /\ watch.rounds < MaxRounds
    /\ watch' = [watch EXCEPT !.pc = "range", !.rounds = @ + 1]
    /\ UNCHANGED stream
    /\ UNCHANGED brokerVars
    /\ UNCHANGED socketVars
    /\ UNCHANGED storeVars
    /\ UNCHANGED nseVars

\* the range of line 360 runs together with the write of line 335
WatchRaceFatal ==
    /\ panic = NoPanic
    /\ watch.pc = "range"
    /\ \E a \in AllocCallers : WritesMap(a)
    /\ panic' = "concurrent map access"
    /\ UNCHANGED <<nsmSockets, alloc, tasks, chans, sockFile, reserved>>
    /\ UNCHANGED watchVars
    /\ UNCHANGED brokerVars
    /\ UNCHANGED storeVars
    /\ UNCHANGED nseVars

----------------------------------------------------------------------------
(* The example endpoint process, cmd/examples/nse/nse.go *)

NsmClients == {"nsm1", "nsm2"}     \* concurrent callers of the connection server
NotExited == "running"
podUID == "podUID"
linuxNS == "linuxNS"
networkServiceName == "gold-network"
NSMkeyNSELocalMechanism == "nselocalmechanism"

\* the statements of main that end the process when they fail, in order:
\* lines 146-150, 151-155, 160-164, 168-172, 176-178 and 181-184
SetupSteps == <<"buildClient", "namespace", "pod", "linuxNS", "cleanup", "listen">>

\* os.Exit(1) after logrus.Error, or the exit of logrus.Fatalf
SetupExit(step) ==
    IF step \in {"buildClient", "namespace", "pod"} THEN "os.Exit(1)" ELSE "Fatalf"

StepAfter(step) ==
    LET i == CHOOSE j \in DOMAIN SetupSteps : SetupSteps[j] = step
    IN  IF i < Len(SetupSteps) THEN SetupSteps[i + 1] ELSE "go"

\* interface names, as the host lists them and as a request names them
InterfaceNames == {"nsm0", "NSM0", "eth0"}

\* strings.ToLower
ToLower(name) == IF name = "NSM0" THEN "nsm0" ELSE name

NoParameter == "none"

\* the requests of the two methods of the connection server
EndpointRequests ==
    [method : {"RequestEndpointConnection"}, RequestId : RequestIds,
     NetworkServiceName : Services]
    \cup [method : {"SendEndpointConnectionMechanism"}, RequestId : RequestIds,
          NetworkServiceName : Services,
          Parameters : [{NSMkeyNSELocalMechanism} -> {"nsm0", "NSM0"}]
                       \cup {[k \in {} |-> NoParameter]}]

\* lines 63-72
RequestEndpointConnection(req) ==
    [RequestId |-> podUID, NetworkServiceName |-> networkServiceName,
     LinuxNamespace |-> linuxNS, err |-> Nil]

\* lines 74-113; interfaces is the result of net.Interfaces(), listOk its error
SendEndpointConnectionMechanism(req, listOk, interfaces) ==
    IF NSMkeyNSELocalMechanism \notin DOMAIN req.Parameters
    THEN [RequestId |-> req.RequestId, MechanismFound |-> FALSE, err |-> "missing key"]
    ELSE IF ~listOk
         THEN [RequestId |-> req.RequestId, MechanismFound |-> FALSE, err |-> "list failed"]
         ELSE IF \E intfs \in interfaces :
                    ToLower(intfs) = ToLower(req.Parameters[NSMkeyNSELocalMechanism])
              THEN [RequestId |-> req.RequestId, MechanismFound |-> TRUE, err |-> Nil]
              ELSE [RequestId |-> req.RequestId, MechanismFound |-> FALSE,
                    err |-> "not found"]

NoEndpointRequest ==
    [method |-> "none", RequestId |-> Nil, NetworkServiceName |-> Nil]

NoEndpointReply == [RequestId |-> Nil, err |-> Nil]

IdleNseCall == [pc |-> "idle", req |-> NoEndpointRequest, reply |-> NoEndpointReply]

\* the process as it starts: lines 141-144
InitNse ==
    /\ nseMain = SetupSteps[1]
    /\ nseGo = "none"
    /\ wg = 0
    /\ grpcServer = "new"
    /\ nseCalls = [c \in NsmClients |-> IdleNseCall]
    /\ exited = NotExited

\* lines 146-185: each statement goes on to the next, or ends the process
NseSetup(ok) ==
    /\ exited = NotExited
    /\ \E i \in DOMAIN SetupSteps : nseMain = SetupSteps[i]
    /\ IF ok
       THEN /\ nseMain' = StepAfter(nseMain)
            /\ UNCHANGED exited
       ELSE /\ exited' = SetupExit(nseMain)
            /\ UNCHANGED nseMain
    /\ UNCHANGED <<nseGo, wg, grpcServer, nseCalls>>
    /\ UNCHANGED brokerVars
    /\ UNCHANGED socketVars
    /\ UNCHANGED storeVars
    /\ UNCHANGED watchVars

\* lines 196-201: the go statement starts the goroutine and main goes on
NseGo ==
    /\ exited = NotExited
    /\ nseMain = "go"
    /\ nseMain' = "probe"
    /\ nseGo' = "add"
    /\ UNCHANGED <<wg, grpcServer, nseCalls, exited>>
    /\ UNCHANGED brokerVars
    /\ UNCHANGED socketVars
    /\ UNCHANGED storeVars
    /\ UNCHANGED watchVars

\* line 197, in the goroutine
WaitGroupAdd(counter, delta) == counter + delta

NseAdd ==
    /\ exited = NotExited
    /\ nseGo = "add"
    /\ wg' = WaitGroupAdd(wg, 1)
    /\ nseGo' = "serve"
    /\ UNCHANGED <<nseMain, grpcServer, nseCalls, exited>>
    /\ UNCHANGED brokerVars
    /\ UNCHANGED socketVars
    /\ UNCHANGED storeVars
    /\ UNCHANGED watchVars

\* lines 198-200: Serve blocks while it accepts connections; when it returns
\* an error (at once on a stopped server, later on a failing listener) the
\* process ends in logrus.Fatalf
NseServe(ok) ==
    /\ exited = NotExited
    /\ nseGo \in {"serve", "serving"}
    /\ IF ok /\ grpcServer # "stopped"
       THEN /\ nseGo = "serve"
            /\ nseGo' = "serving"
            /\ grpcServer' = "serving"
            /\ UNCHANGED exited
       ELSE /\ exited' = "Fatalf"
            /\ UNCHANGED <<nseGo, grpcServer>>
    /\ UNCHANGED <<nseMain, wg, nseCalls>>
    /\ UNCHANGED brokerVars
    /\ UNCHANGED socketVars
    /\ UNCHANGED storeVars
    /\ UNCHANGED watchVars

\* lines 203-207: the connection is made to the listener of line 181, which
\* is bound before the goroutine is started, so it can succeed before Serve
\* has been called
NseProbe(dialOk) ==
    /\ exited = NotExited
    /\ nseMain = "probe"
    /\ IF dialOk
       THEN /\ nseMain' = "stat"
            /\ UNCHANGED exited
       ELSE /\ exited' = "Fatalf"
            /\ UNCHANGED nseMain
    /\ UNCHANGED <<nseGo, wg, grpcServer, nseCalls>>
    /\ UNCHANGED brokerVars
    /\ UNCHANGED socketVars
    /\ UNCHANGED storeVars
    /\ UNCHANGED watchVars

\* lines 212-215 (statOk) and 217-220 (dialOk)
NseConnect(statOk, dialOk) ==
    /\ exited = NotExited
    /\ nseMain = "stat"
    /\ IF ~statOk
       THEN /\ exited' = "os.Exit(1)"
            /\ UNCHANGED nseMain
       ELSE IF ~dialOk
            THEN /\ exited' = "Fatalf"
                 /\ UNCHANGED nseMain
            ELSE /\ nseMain' = "advertise"
                 /\ UNCHANGED exited
    /\ UNCHANGED <<nseGo, wg, grpcServer, nseCalls>>
    /\ UNCHANGED brokerVars
    /\ UNCHANGED socketVars
    /\ UNCHANGED storeVars
    /\ UNCHANGED watchVars

AdvertiseOutcomes == {"error", "refused", "accepted"}

\* lines 236-251: on an error or a refusal the server is stopped and the
\* process ends; on acceptance main goes on to wg.Wait()
NseAdvertise(outcome) ==
    /\ exited = NotExited
    /\ nseMain = "advertise"
    /\ IF outcome = "accepted"
       THEN /\ nseMain' = "wait"
            /\ UNCHANGED <<grpcServer, exited>>
       ELSE /\ grpcServer' = "stopped"
            /\ exited' = "Fatalf"
            /\ UNCHANGED nseMain
    /\ UNCHANGED <<nseGo, wg, nseCalls>>
    /\ UNCHANGED brokerVars
    /\ UNCHANGED socketVars
    /\ UNCHANGED storeVars
    /\ UNCHANGED watchVars

\* sync.WaitGroup.Wait returns when the counter is zero
WaitReturns(counter) == counter = 0

\* line 252: Wait returns, main returns and the process ends with it
NseWait ==
    /\ exited = NotExited
    /\ nseMain = "wait"
    /\ WaitReturns(wg)
    /\ nseMain' = "returned"
    /\ exited' = "return"
    /\ UNCHANGED <<nseGo, wg, grpcServer, nseCalls>>
    /\ UNCHANGED brokerVars
    /\ UNCHANGED socketVars
    /\ UNCHANGED storeVars
    /\ UNCHANGED watchVars

\* a client calls a method of the serving connection server
NseCall(c, req) ==
    /\ exited = NotExited
    /\ grpcServer = "serving"
    /\ nseCalls[c].pc = "idle"
    /\ nseCalls' = [nseCalls EXCEPT ![c] = [IdleNseCall EXCEPT !.pc = "called", !.req = req]]
    /\ UNCHANGED <<nseMain, nseGo, wg, grpcServer, exited>>
    /\ UNCHANGED brokerVars
    /\ UNCHANGED socketVars
    /\ UNCHANGED storeVars
    /\ UNCHANGED watchVars

\* the handler of lines 63-72 or 74-113 produces the reply
NseHandle(c, listOk, interfaces) ==
    /\ exited = NotExited
    /\ nseCalls[c].pc = "called"
    /\ nseCalls' = [nseCalls EXCEPT ![c].pc = "replied", ![c].reply =
            IF nseCalls[c].req.method = "RequestEndpointConnection"
            THEN RequestEndpointConnection(nseCalls[c].req)
            ELSE SendEndpointConnectionMechanism(nseCalls[c].req, listOk, interfaces)]
    /\ UNCHANGED <<nseMain, nseGo, wg, grpcServer, exited>>
    /\ UNCHANGED brokerVars
    /\ UNCHANGED socketVars
    /\ UNCHANGED storeVars
    /\ UNCHANGED watchVars

\* the reply is delivered to the client
NseReturn(c) ==
    /\ exited = NotExited
    /\ nseCalls[c].pc = "replied"
    /\ nseCalls' = [nseCalls EXCEPT ![c] = IdleNseCall]
    /\ UNCHANGED <<nseMain, nseGo, wg, grpcServer, exited>>
    /\ UNCHANGED brokerVars
    /\ UNCHANGED socketVars
    /\ UNCHANGED storeVars
    /\ UNCHANGED watchVars

----------------------------------------------------------------------------
(* Specifications *)

NoTable == [r \in {} |-> <<>>]

InitSocketsIdle ==
    /\ nsmSockets = [id \in DeviceIds |-> UnusedSocket(id)]
    /\ alloc = [a \in AllocCallers |-> IdleAlloc]
    /\ tasks = <<>>
    /\ chans = <<>>
    /\ sockFile = [p \in { SocketPath(id) : id \in DeviceIds } |-> 0]
    /\ reserved = 0
    /\ panic = NoPanic

\* newDataplaneStore, lines 499-502
InitStore ==
    /\ dataplanes = NoDataplanes
    /\ storeLock = UnlockedStore
    /\ storeCalls = [p \in StoreCallers |-> IdleStoreCall]
    /\ history = <<>>

\* no ListAndWatch call yet
InitWatch ==
    /\ watch = IdleWatch
    /\ stream = OpenStream

InitBrokerIdle ==
    /\ mu = NoHolder
    /\ rc = [c \in Callers |-> IdleCall]
    /\ clean = [k \in Cleaners |-> IdleClean]
    /\ lastAccepted = NoRequest

\* the broker as it is constructed: no client connection yet
InitBroker ==
    /\ InitStore
    /\ InitWatch
    /\ InitNse
    /\ networkServices \in SUBSET Services
    /\ endpointStore \in SUBSET EndpointUniverse
    /\ clientConnections = NoTable
    /\ InitBrokerIdle
    /\ InitSocketsIdle

\* the broker over any table of client connections
InitBrokerAnyTable ==
    /\ InitStore
    /\ InitWatch
    /\ InitNse
    /\ networkServices \in SUBSET Services
    /\ endpointStore \in SUBSET EndpointUniverse
    /\ clientConnections \in { cc \in AllTables : NumEntries(cc) <= MaxEntries }
    /\ InitBrokerIdle
    /\ InitSocketsIdle

NextBroker ==
    \/ \E c \in Callers, cr \in ConnectionRequests : RequestConnectionBegin(c, cr)
    \/ \E c \in Callers, apiOk \in BOOLEAN : RequestConnectionQuery(c, apiOk)
    \/ \E c \in Callers : RequestConnectionReturn(c)
    \/ \E k \in Cleaners, requestID \in RequestIds : cleanConnectionRequestLock(k, requestID)
    \/ \E k \in Cleaners : cleanConnectionRequestDelete(k)
    \/ \E k \in Cleaners : cleanConnectionRequestUnlock(k)

SpecBroker == InitBroker /\ [][NextBroker]_vars

SpecBrokerAnyTable == InitBrokerAnyTable /\ [][NextBroker]_vars

\* the device plugin: the table as constructed, a socket file possibly left
\* behind by an earlier run
InitSockets ==
    /\ InitStore
    /\ InitWatch
    /\ InitNse
    /\ networkServices = {}
    /\ endpointStore = {}
    /\ clientConnections = NoTable
    /\ InitBrokerIdle
    /\ nsmSockets = [id \in DeviceIds |-> UnusedSocket(id)]
    /\ alloc = [a \in AllocCallers |-> IdleAlloc]
    /\ tasks = <<>>
    /\ chans = <<>>
    /\ sockFile \in [{ SocketPath(id) : id \in DeviceIds } -> {0, Stale}]
    /\ reserved = 0
    /\ panic = NoPanic

NextSockets ==
    \/ \E a \in AllocCallers, reqs \in AllocateRequests : AllocateCall(a, reqs)
    \/ \E a \in AllocCallers : AllocateCheck(a)
    \/ \E a \in AllocCallers : AllocateStopEval(a)
    \/ \E a \in AllocCallers : AllocateAckEval(a)
    \/ \E a \in AllocCallers : AllocateClose(a)
    \/ \E a \in AllocCallers : AllocateRegister(a)
    \/ \E a \in AllocCallers, mkdirOk \in BOOLEAN : AllocateMkdir(a, mkdirOk)
    \/ \E a \in AllocCallers : AllocateReturn(a)
    \/ \E t \in Tasks : ServerStart(t)
    \/ \E t \in Tasks, cleanupOk \in BOOLEAN : ServerCleanup(t, cleanupOk)
    \/ \E t \in Tasks, listenOk \in BOOLEAN : ServerListen(t, listenOk)
    \/ \E t \in Tasks, dialOk \in BOOLEAN : ServerProbe(t, dialOk)
    \/ \E s \in Goroutines, r \in Goroutines : Rendezvous(s, r)
    \/ \E g \in Goroutines : OnClosedChannel(g)
    \/ \E a \in AllocCallers : MapRaceFatal(a)

SpecSockets == InitSockets /\ [][NextSockets]_vars

\* the container requests of a batch, over the device ids of the table
BatchDevicesIDs ==
    { q \in SeqsUpTo(DeviceIds, MaxDevices) :
        \A i, j \in DOMAIN q : i # j => q[i] # q[j] }

BatchRequests == SeqsUpTo(BatchDevicesIDs, MaxBatch) \ { <<>> }

\* the device plugin serving one Allocate call at a time, each for a batch of
\* container requests; no goroutine can meet a closed channel here, as only
\* the call that completed the handshake on a channel closes it
NextAllocate ==
    \/ \E reqs \in BatchRequests : AllocateCall(BatchCaller, reqs)
    \/ \E a \in AllocCallers : AllocateCheck(a)
    \/ \E a \in AllocCallers : AllocateStopEval(a)
    \/ \E a \in AllocCallers : AllocateAckEval(a)
    \/ \E a \in AllocCallers : AllocateClose(a)
    \/ \E a \in AllocCallers : AllocateRegister(a)
    \/ \E a \in AllocCallers, mkdirOk \in BOOLEAN : AllocateMkdir(a, mkdirOk)
    \/ \E a \in AllocCallers : AllocateReturn(a)
    \/ \E t \in Tasks : ServerStart(t)
    \/ \E t \in Tasks, cleanupOk \in BOOLEAN : ServerCleanup(t, cleanupOk)
    \/ \E t \in Tasks, listenOk \in BOOLEAN : ServerListen(t, listenOk)
    \/ \E t \in Tasks, dialOk \in BOOLEAN : ServerProbe(t, dialOk)
    \/ \E s \in Goroutines, r \in Goroutines : Rendezvous(s, r)
    \/ \E a \in AllocCallers : MapRaceFatal(a)

SpecAllocate == InitSockets /\ [][NextAllocate]_vars

\* the Allocate calls that go on while the kubelet watches: one device id
\* each, of the table or not
WatchedRequests == { <<<<id>>>> : id \in DeviceIds \cup UnknownIds }

\* the device plugin as the kubelet drives it: ListAndWatch, and one
\* Allocate call at a time
NextWatch ==
    \/ ListAndWatchCall
    \/ \E order \in Orders(DOMAIN nsmSockets) : ListAndWatchRange(order)
    \/ \E sendOk \in BOOLEAN : ListAndWatchSend(sendOk)
    \/ ListAndWatchSleep
    \/ WatchRaceFatal
    \/ \E reqs \in WatchedRequests : AllocateCall(BatchCaller, reqs)
    \/ \E a \in AllocCallers : AllocateCheck(a)
    \/ \E a \in AllocCallers : AllocateStopEval(a)
    \/ \E a \in AllocCallers : AllocateAckEval(a)
    \/ \E a \in AllocCallers : AllocateClose(a)
    \/ \E a \in AllocCallers : AllocateRegister(a)
    \/ \E a \in AllocCallers, mkdirOk \in BOOLEAN : AllocateMkdir(a, mkdirOk)
    \/ \E a \in AllocCallers : AllocateReturn(a)
    \/ \E t \in Tasks : ServerStart(t)
    \/ \E t \in Tasks, cleanupOk \in BOOLEAN : ServerCleanup(t, cleanupOk)
    \/ \E t \in Tasks, listenOk \in BOOLEAN : ServerListen(t, listenOk)
    \/ \E t \in Tasks, dialOk \in BOOLEAN : ServerProbe(t, dialOk)
    \/ \E s \in Goroutines, r \in Goroutines : Rendezvous(s, r)
    \/ \E a \in AllocCallers : MapRaceFatal(a)

SpecWatch == InitSockets /\ [][NextWatch]_vars

\* the registry alone, with the broker and the device plugin idle
InitRegistry ==
    /\ InitStore
    /\ InitWatch
    /\ InitNse
    /\ networkServices = {}
    /\ endpointStore = {}
    /\ clientConnections = NoTable
    /\ InitBrokerIdle
    /\ InitSocketsIdle

NextRegistry ==
    \/ \E p \in StoreCallers, call \in StoreCalls : StoreLock(p, call)
    \/ \E p \in StoreCallers, order \in Orders(DOMAIN dataplanes) : StoreBody(p, order)
    \/ \E p \in StoreCallers : StoreReturn(p)

SpecRegistry == InitRegistry /\ [][NextRegistry]_vars

----------------------------------------------------------------------------
(* Steps of a RequestConnection call, as seen on a transition *)

\* call c arrives in this step; its request is rc'[c].cr
BeginStep(c) == rc[c].pc = "idle" /\ rc'[c].pc # "idle"

\* the endpoint query of call c returns in this step
QueryStep(c) == rc[c].pc = "query" /\ rc'[c].pc = "done"

\* call c produces its reply in this step
ReplyStep(c) == rc[c].pc # "done" /\ rc'[c].pc = "done"

Registered(cr) == cr.NetworkServiceName \in networkServices

EntryOf(cr) == clientConnections[cr.RequestId][cr.NetworkServiceName]

Advertised(cr) ==
    \E e \in endpointStore : e.service = cr.NetworkServiceName /\ e.namespace = namespace

Refused(reply, status) ==
    /\ reply.Accepted = FALSE
    /\ reply.AdmissionError # <<>>
    /\ reply.status = status

AcceptedEmpty(reply) ==
    /\ reply.Accepted = TRUE
    /\ reply.ConnectionParameters = "empty"
    /\ reply.status = "OK"

----------------------------------------------------------------------------
(* Claims about RequestConnection, checked under SpecBroker *)

\* C1: a request for a service that is not in the registry is answered in the
\* step it arrives with accepted=false, a non-empty admission error and the
\* not-found status, and the step leaves clientConnections as it was,
\* whatever entries the table holds.
C1_UnknownServiceNotFound ==
    [][\A c \in Callers :
        (BeginStep(c) /\ ~Registered(rc'[c].cr)) =>
            /\ rc'[c].pc = "done"
            /\ Refused(rc'[c].reply, "NotFound")
            /\ clientConnections' = clientConnections]_vars

\* C1 witness: an unknown service was refused while the table holds an entry
\* for the very pair that was requested.
C1_Witness ==
    \E c \in Callers :
        /\ rc[c].pc = "done"
        /\ ~Registered(rc[c].cr)
        /\ rc[c].reply.status = "NotFound"
        /\ HasEntry(clientConnections, rc[c].cr.RequestId, rc[c].cr.NetworkServiceName)

\* a call for an in-progress pair of a registered service can start now
CanRequestInProgress(c) ==
    \A cr \in ConnectionRequests :
        (/\ rc[c].pc = "idle"
         /\ Registered(cr)
         /\ HasEntry(clientConnections, cr.RequestId, cr.NetworkServiceName)
         /\ EntryOf(cr).isInProgress)
        => ENABLED RequestConnectionBegin(c, cr)

\* C2: a request for a pair that has an in-progress entry and a registered
\* service is answered accepted=false with the already-exists status; the
\* call can start whoever holds the broker's lock and whatever the other
\* calls are doing, it replies in the step it arrives (no wait on a lock or
\* a channel), and it leaves the table, so the entry and its flag, unchanged.
C2_InProgressAlreadyExists ==
    /\ [](\A c \in Callers : CanRequestInProgress(c))
    /\ [][\A c \in Callers :
            (/\ BeginStep(c)
             /\ Registered(rc'[c].cr)
             /\ HasEntry(clientConnections, rc'[c].cr.RequestId, rc'[c].cr.NetworkServiceName)
             /\ clientConnections[rc'[c].cr.RequestId][rc'[c].cr.NetworkServiceName].isInProgress)
            =>
            /\ rc'[c].pc = "done"
            /\ Refused(rc'[c].reply, "AlreadyExists")
            /\ clientConnections' = clientConnections
            /\ mu' = mu]_vars

\* C2 witness: two calls for the same in-progress pair have both been
\* answered already-exists while a cleanConnectionRequest holds the lock.
C2_Witness ==
    \E c1, c2 \in Callers :
        /\ c1 # c2
        /\ rc[c1].pc = "done" /\ rc[c2].pc = "done"
        /\ rc[c1].cr = rc[c2].cr
        /\ rc[c1].reply.status = "AlreadyExists"
        /\ rc[c2].reply.status = "AlreadyExists"
        /\ HasEntry(clientConnections, rc[c1].cr.RequestId, rc[c1].cr.NetworkServiceName)
        /\ EntryOf(rc[c1].cr).isInProgress
        /\ mu # NoHolder

\* C3: a request for a pair that has an entry which is not in progress, and
\* a registered service, is answered accepted=true with empty connection
\* parameters and the ok status, and the step changes neither
\* clientConnections nor nsmSockets nor the registry; so every repetition
\* meets the same state and gets the same reply.
C3_CompletedIdempotent ==
    [][\A c \in Callers :
        (/\ BeginStep(c)
         /\ Registered(rc'[c].cr)
         /\ HasEntry(clientConnections, rc'[c].cr.RequestId, rc'[c].cr.NetworkServiceName)
         /\ ~clientConnections[rc'[c].cr.RequestId][rc'[c].cr.NetworkServiceName].isInProgress)
        =>
        /\ rc'[c].pc = "done"
        /\ AcceptedEmpty(rc'[c].reply)
        /\ rc'[c].reply.AdmissionError = <<>>
        /\ clientConnections' = clientConnections
        /\ nsmSockets' = nsmSockets
        /\ networkServices' = networkServices]_vars

\* C3 witness: a repeated call (it follows an accepted reply for the same
\* pair) has been accepted for a pair whose entry is not in progress, next
\* to another accepted call for the same pair.
C3_Witness ==
    \E c1, c2 \in Callers :
        /\ c1 # c2
        /\ rc[c1].pc = "done" /\ rc[c2].pc = "done"
        /\ rc[c1].cr = rc[c2].cr
        /\ rc[c1].follows
        /\ rc[c1].reply = AcceptedReply /\ rc[c2].reply = AcceptedReply
        /\ HasEntry(clientConnections, rc[c1].cr.RequestId, rc[c1].cr.NetworkServiceName)
        /\ ~EntryOf(rc[c1].cr).isInProgress

\* C4 as claimed: with the service registered and an endpoint advertised, a
\* request that follows an accepted reply for the same pair, with no
\* cleanConnectionRequest in between, is answered already-exists.
C4_SecondAlreadyExists ==
    [][\A c \in Callers :
        (/\ ReplyStep(c)
         /\ rc'[c].follows
         /\ Registered(rc'[c].cr)
         /\ Advertised(rc'[c].cr))
        => rc'[c].reply.status = "AlreadyExists"]_vars

\* C4 amended: such a request is never answered already-exists; it is
\* accepted again with the ok status, unless its own endpoint query fails,
\* and then it is answered aborted.
C4_SecondAcceptedAgain ==
    [][\A c \in Callers :
        (/\ ReplyStep(c)
         /\ rc'[c].follows
         /\ Registered(rc'[c].cr)
         /\ Advertised(rc'[c].cr))
        =>
        IF rc'[c].endpointList.err = Nil
        THEN rc'[c].reply = AcceptedReply
        ELSE Refused(rc'[c].reply, "Aborted")]_vars

\* C4 witness: a request that follows an accepted reply for its pair has
\* been accepted as a new request: the pair has no entry.
C4_Witness ==
    \E c \in Callers :
        /\ rc[c].pc = "done"
        /\ rc[c].follows
        /\ rc[c].reply = AcceptedReply
        /\ Registered(rc[c].cr)
        /\ Advertised(rc[c].cr)
        /\ ~HasEntry(clientConnections, rc[c].cr.RequestId, rc[c].cr.NetworkServiceName)

\* a call waits for its endpoint query only for a registered service and a
\* pair without an entry
NewRequestOnly(c) ==
    rc[c].pc = "query" =>
        /\ Registered(rc[c].cr)
        /\ ~HasEntry(clientConnections, rc[c].cr.RequestId, rc[c].cr.NetworkServiceName)

\* C8: a new request (registered service, no entry for the pair) whose
\* endpoint query fails is answered accepted=false with a non-empty
\* admission error and the aborted status, and no entry is recorded.
C8_QueryFailureAborted ==
    /\ [](\A c \in Callers : NewRequestOnly(c))
    /\ [][\A c \in Callers :
            (QueryStep(c) /\ rc'[c].endpointList.err # Nil) =>
                /\ Refused(rc'[c].reply, "Aborted")
                /\ clientConnections' = clientConnections]_vars

\* C8 witness: a call was answered aborted after its query failed.
C8_Witness ==
    \E c \in Callers :
        /\ rc[c].pc = "done"
        /\ rc[c].endpointList.err # Nil
        /\ rc[c].reply.status = "Aborted"
        /\ Registered(rc[c].cr)
        /\ ~HasEntry(clientConnections, rc[c].cr.RequestId, rc[c].cr.NetworkServiceName)

\* C9: a new request whose endpoint query succeeds with no endpoint is
\* answered accepted=false with the not-found status and an admission error
\* that no unknown-service reply carries, and no entry is recorded.
C9_NoEndpointsNotFound ==
    [][\A c \in Callers :
        (/\ QueryStep(c)
         /\ rc'[c].endpointList.err = Nil
         /\ rc'[c].endpointList.items = {})
        =>
        /\ Refused(rc'[c].reply, "NotFound")
        /\ \A cr \in ConnectionRequests :
                rc'[c].reply.AdmissionError # ServiceNotFoundReply(cr).AdmissionError
        /\ clientConnections' = clientConnections]_vars

\* C9 witness: a call for a registered service was answered not-found after
\* a successful query that returned nothing.
C9_Witness ==
    \E c \in Callers :
        /\ rc[c].pc = "done"
        /\ rc[c].endpointList = NoList
        /\ rc[c].reply = NoEndpointsReply(rc[c].cr)
        /\ Registered(rc[c].cr)
        /\ ~HasEntry(clientConnections, rc[c].cr.RequestId, rc[c].cr.NetworkServiceName)

\* C10: a new request whose endpoint query returns at least one endpoint is
\* answered accepted=true with empty connection parameters and the ok
\* status, and the step leaves clientConnections as it was: no entry is
\* created and no in-progress flag is set.
C10_NewRequestAccepted ==
    [][\A c \in Callers :
        (/\ QueryStep(c)
         /\ rc'[c].endpointList.err = Nil
         /\ rc'[c].endpointList.items # {})
        =>
        /\ AcceptedEmpty(rc'[c].reply)
        /\ clientConnections' = clientConnections
        /\ ~HasEntry(clientConnections', rc'[c].cr.RequestId, rc'[c].cr.NetworkServiceName)]_vars

\* C10 witness: a first request for a pair was accepted after a query that
\* returned an endpoint, and the pair has no entry.
C10_Witness ==
    \E c \in Callers :
        /\ rc[c].pc = "done"
        /\ rc[c].endpointList.items # {}
        /\ ~rc[c].follows
        /\ rc[c].reply = AcceptedReply
        /\ ~HasEntry(clientConnections, rc[c].cr.RequestId, rc[c].cr.NetworkServiceName)

----------------------------------------------------------------------------
(* Claims about Allocate and startClientServer, checked under SpecSockets *)

LiveServers(id) == { t \in Tasks : tasks[t].id = id /\ tasks[t].serving }

\* a task that has received its stop request: it is past line 455, with
\* nothing left to run but the acknowledgement and the return
Stopped(t) == tasks[t].pc \in {"ack", "returned"} /\ tasks[t].failed = "no"

\* C5: a server that has received its stop request is stopped by the time
\* it acknowledges, it no longer serves on its listener, and so the server
\* of the next allocation binds a path that no live server holds: for every
\* device id, and so for its socket path, at most one server is live.
C5_OneLiveServerPerDevice ==
    /\ \A t \in Tasks : Stopped(t) => ~tasks[t].serving
    /\ \A id \in DeviceIds : Cardinality(LiveServers(id)) <= 1

\* the server tasks that can still receive a stop request sent on channel ch
\* for device id: a task that holds ch and has not reached its return, or a
\* task that has not yet copied the entry holding ch
StopReceivers(id, ch) ==
    { t \in Tasks :
        /\ tasks[t].id = id
        /\ IF tasks[t].pc = "spawned"
           THEN nsmSockets[id].stopChannel = ch
           ELSE /\ tasks[t].pc \in {"cleanup", "listen", "probe", "wait"}
                /\ tasks[t].client.stopChannel = ch }

\* C6: an Allocate call that found its device id allocated completes: with
\* no other Allocate call running, the stop request it is blocked sending
\* has a server task of that id left to receive and acknowledge it,
\* whatever became of the task the previous Allocate started.
C6_StopRequestIsReceived ==
    \A a \in AllocCallers :
        (/\ alloc[a].pc = "stop"
         /\ \A b \in AllocCallers \ {a} : alloc[b].pc = "idle")
        => StopReceivers(CurrentId(alloc[a]), alloc[a].ch) # {}

\* C7: once a server task has returned because a step of its startup
\* failed, the table entry it was started for is not marked allocated.
C7_FailedStartClearsFlag ==
    \A t \in Tasks :
        (/\ tasks[t].pc = "returned"
         /\ tasks[t].failed # "no"
         /\ nsmSockets[tasks[t].id].stopChannel = tasks[t].client.stopChannel)
        => ~nsmSockets[tasks[t].id].allocated

----------------------------------------------------------------------------
(* The registry of dataplane providers *)

\* call p runs its body on the map in this step
BodyStep(p) == storeCalls[p].pc = "locked" /\ storeCalls'[p].pc = "return"

\* C11: Add is idempotent and the first write wins: an Add of any descriptor
\* whose name is already present leaves the descriptor stored for that name,
\* and every other entry, unchanged.
C11_AddFirstWriteWins ==
    [][\A p \in StoreCallers :
          (/\ BodyStep(p)
           /\ storeCalls[p].op = "Add"
           /\ storeCalls[p].arg.RegisteredName \in DOMAIN dataplanes)
          => dataplanes' = dataplanes]_vars

\* an Add of a second descriptor for a stored name has run
C11_Witness ==
    \E p \in StoreCallers :
        /\ storeCalls[p].pc = "return"
        /\ storeCalls[p].op = "Add"
        /\ storeCalls[p].arg.RegisteredName \in DOMAIN dataplanes
        /\ dataplanes[storeCalls[p].arg.RegisteredName] # storeCalls[p].arg

\* the position in h of the last Delete of name n, 0 without one
LastDelete(h, n) ==
    LET D == { i \in DOMAIN h : h[i].op = "Delete" /\ h[i].arg = n }
    IN  IF D = {} THEN 0 ELSE CHOOSE i \in D : \A j \in D : j <= i

\* the reference: the descriptor of the first Add of n since its last Delete
Reference(h, n) ==
    LET A == { i \in DOMAIN h : /\ i > LastDelete(h, n)
                                /\ h[i].op = "Add"
                                /\ h[i].arg.RegisteredName = n }
    IN  IF A = {} THEN NilDataplane ELSE h[CHOOSE i \in A : \A j \in A : i <= j].arg

Stored(h) == { n \in DataplaneNames : Reference(h, n) # NilDataplane }

AgreesWithReference ==
    /\ DOMAIN dataplanes = Stored(history)
    /\ \A n \in DOMAIN dataplanes : dataplanes[n] = Reference(history, n)
    /\ \A p \in StoreCallers :
          storeCalls[p].pc = "return" =>
             /\ storeCalls[p].op = "Get"
                  => storeCalls[p].result = Reference(history, storeCalls[p].arg)
             /\ storeCalls[p].op = "List"
                  => /\ Len(storeCalls[p].result) = Cardinality(Stored(history))
                     /\ { storeCalls[p].result[i] : i \in DOMAIN storeCalls[p].result }
                          = { Reference(history, n) : n \in Stored(history) }

\* C12: after any sequence of Add, Get, Delete and List calls the registry
\* agrees with the reference map: Get returns the descriptor of the first Add
\* of the name since its last Delete, or nil; List returns exactly the stored
\* descriptors, one per name; a Delete of an absent name, a Get and a List
\* leave the store as it was.
C12_RegistryAgreesWithReference ==
    /\ []AgreesWithReference
    /\ [][\A p \in StoreCallers :
             (/\ BodyStep(p)
              /\ \/ storeCalls[p].op \in {"Get", "List"}
                 \/ /\ storeCalls[p].op = "Delete"
                    /\ storeCalls[p].arg \notin DOMAIN dataplanes)
             => dataplanes' = dataplanes]_vars

\* a Get returns the descriptor added after a Delete that removed another
C12_Witness ==
    \E p \in StoreCallers :
        /\ storeCalls[p].pc = "return"
        /\ storeCalls[p].op = "Get"
        /\ Len(history) = 3
        /\ history[1].op = "Add" /\ history[2].op = "Delete" /\ history[3].op = "Add"
        /\ history[1].arg.RegisteredName = storeCalls[p].arg
        /\ history[2].arg = storeCalls[p].arg
        /\ storeCalls[p].result = history[3].arg
        /\ history[3].arg # history[1].arg

InCriticalSection(p) == storeCalls[p].pc \in {"locked", "return"}

\* C17: Add, Get, Delete and List are mutually exclusive, reads included: at
\* most one call is between its first access of the map and its return, and
\* it holds the lock exclusively all that time.
C17_StoreCallsExclusive ==
    /\ Cardinality({ p \in StoreCallers : InCriticalSection(p) }) <= 1
    /\ \A p \in StoreCallers :
          InCriticalSection(p) => storeLock = [writer |-> p, readers |-> {}]

\* a read has the map to itself while the map holds descriptors
C17_Witness ==
    \E p \in StoreCallers :
        /\ storeCalls[p].pc = "locked"
        /\ storeCalls[p].op \in {"Get", "List"}
        /\ dataplanes # NoDataplanes
        /\ \A q \in StoreCallers \ {p} : storeCalls[q].pc = "idle"

----------------------------------------------------------------------------
(* The two channels of a RequestConnection reply *)

ErrorStatuses == {"NotFound", "AlreadyExists", "Aborted"}

Replies == { rc[c].reply : c \in { d \in Callers : rc[d].pc = "done" } }

\* C13: every reply carries its decision in both channels: accepted=false
\* exactly when the admission error is non-empty and exactly when the status
\* is not-found, already-exists or aborted; accepted=true comes with an empty
\* admission error and the ok status.
C13_ReplyChannelsAgree ==
    \A reply \in Replies :
        /\ (reply.Accepted = FALSE) <=> (reply.AdmissionError # <<>>)
        /\ (reply.Accepted = FALSE) <=> (reply.status \in ErrorStatuses)
        /\ reply.Accepted => reply.status = "OK"

\* a refusal of an in-progress duplicate and an acceptance, side by side
C13_Witness ==
    /\ \E reply \in Replies : reply.status = "AlreadyExists"
    /\ \E reply \in Replies : reply.Accepted

----------------------------------------------------------------------------
(* The response of Allocate *)

\* the mounts call st has gathered for its container request c
MountsOf(st, c) ==
    IF c <= Len(st.responses) THEN st.responses[c].Mounts
    ELSE IF c = st.ci THEN st.mounts ELSE <<>>

\* the server task started for position m of the request has failed to start
FailedToStart(m) == tasks[m.task].failed # "no"

\* C14: when the server of a device id fails to start, the device is left
\* out of the mounts of the response of that allocation attempt.
C14_FailedServerOmitted ==
    \A a \in AllocCallers :
        alloc[a].pc = "return" =>
            \A m \in alloc[a].made :
                FailedToStart(m) =>
                    \A k \in DOMAIN alloc[a].responses[m.ci].Mounts :
                        alloc[a].responses[m.ci].Mounts[k]
                            # Mount(alloc[a].reqs[m.ci][m.di])

\* the positions of its request that call st has gone past
PassedPositions(st) ==
    { q \in UNION { { <<c, d>> : d \in DOMAIN st.reqs[c] } : c \in DOMAIN st.reqs } :
        \/ q[1] < st.ci
        \/ q[1] = st.ci /\ q[2] < st.di }

PassedIds(st) == { st.reqs[q[1]][q[2]] : q \in PassedPositions(st) }

\* C15 as stated: Allocate on a device id that is not yet in the device
\* table registers a new socket descriptor for it, so every device id an
\* Allocate call has gone past has a descriptor in the table.
C15_UnknownIdRegistered ==
    \A a \in AllocCallers : PassedIds(alloc[a]) \subseteq DOMAIN nsmSockets

\* a stop channel no descriptor holds and no goroutine has seen
FreshChannel(ch) ==
    /\ ch \notin DOMAIN chans
    /\ \A id \in DOMAIN nsmSockets : nsmSockets[id].stopChannel # ch

\* C15 amended: when Allocate reaches a device id that the table holds and
\* does not mark allocated, it writes a descriptor for it with a fresh stop
\* channel and the allocated flag set and, when the directory is made, starts
\* a server task for it and adds a mount for it; a device id the table does
\* not hold is passed over with no descriptor, no server task and no mount.
C15_KnownIdRegistered ==
    [][\A a \in AllocCallers :
          LET st == alloc[a]
              id == CurrentId(st)
          IN  /\ (st.pc = "check" /\ alloc'[a] # st) =>
                    IF id \notin DOMAIN nsmSockets
                    THEN /\ nsmSockets' = nsmSockets
                         /\ tasks' = tasks
                         /\ alloc'[a].made = st.made
                         /\ MountsOf(alloc'[a], st.ci) = MountsOf(st, st.ci)
                         /\ <<st.ci, st.di>> \in PassedPositions(alloc'[a])
                    ELSE ~nsmSockets[id].allocated => alloc'[a].pc = "register"
              /\ (st.pc = "register" /\ alloc'[a] # st) =>
                    /\ FreshChannel(nsmSockets'[id].stopChannel)
                    /\ ~chans'[nsmSockets'[id].stopChannel].closed
                    /\ nsmSockets'[id].allocated
                    /\ nsmSockets'[id].device = Device(id)
                    /\ alloc'[a].pc = "mkdir"
              /\ (st.pc = "mkdir" /\ alloc'[a].made # st.made) =>
                    /\ tasks' = Append(tasks, SpawnedTask(id))
                    /\ MountsOf(alloc'[a], st.ci) = Append(MountsOf(st, st.ci), Mount(id))]_vars

\* a call has gone past an id the table does not hold, after a call for an
\* id it holds that registered the descriptor and started the server task
C15_Witness ==
    \E a \in AllocCallers :
        /\ alloc[a].pc = "return"
        /\ PassedIds(alloc[a]) \cap UnknownIds # {}
        /\ alloc[a].responses = <<[Mounts |-> <<>>]>>
        /\ \E t \in Tasks :
              /\ nsmSockets[tasks[t].id].allocated
              /\ nsmSockets[tasks[t].id].stopChannel \in DOMAIN chans

\* the mounts of the device ids at positions d, d + 1, ... of ids whose
\* directory was made
RECURSIVE PreparedMounts(_, _, _)
PreparedMounts(ids, D, d) ==
    IF d > Len(ids) THEN <<>>
    ELSE IF d \in D
         THEN <<[ContainerPath |-> SocketBaseDir,
                 HostPath |-> <<SocketBaseDir, "nsm-", ids[d]>>,
                 ReadOnly |-> FALSE]>> \o PreparedMounts(ids, D, d + 1)
         ELSE PreparedMounts(ids, D, d + 1)

MadeIn(st, c) == { m.di : m \in { x \in st.made : x.ci = c } }

\* C20: the response has exactly one container response per container
\* request, in request order; the mounts of a container response are those
\* of the prepared device ids of that request, in order, each with the fixed
\* container path and the host path of its device id; an id whose directory
\* creation fails, or that the table does not hold, has no mount.
C20_ResponseMatchesRequest ==
    \A a \in AllocCallers :
        alloc[a].pc = "return" =>
            /\ Len(alloc[a].responses) = Len(alloc[a].reqs)
            /\ \A c \in DOMAIN alloc[a].reqs :
                  /\ alloc[a].responses[c].Mounts
                       = PreparedMounts(alloc[a].reqs[c], MadeIn(alloc[a], c), 1)
                  /\ \A d \in MadeIn(alloc[a], c) : alloc[a].reqs[c][d] \in DeviceIds

\* a response for two container requests, each with a mount, in which a
\* device id of the table is left out
C20_Witness ==
    \E a \in AllocCallers :
        /\ alloc[a].pc = "return"
        /\ Len(alloc[a].reqs) = 2
        /\ \A c \in {1, 2} : alloc[a].responses[c].Mounts # <<>>
        /\ \E c \in {1, 2} :
              \E d \in DOMAIN alloc[a].reqs[c] :
                  /\ alloc[a].reqs[c][d] \in DeviceIds
                  /\ d \notin MadeIn(alloc[a], c)

----------------------------------------------------------------------------
(* The shared maps *)

\* the goroutines at an access of n.nsmSockets
MapReaders ==
    { g \in Goroutines : IF g.kind = "alloc" THEN AllocReadsMap(g.a) ELSE TaskReadsMap(g.t) }

MapWriters == { g \in Goroutines : g.kind = "alloc" /\ WritesMap(g.a) }

\* C16: the accesses of the shared maps are made under the reader/writer
\* lock, so that a goroutine at a write of n.nsmSockets is the only one at an
\* access of it, and the run-time never finds the map read or written while
\* it is written.
C16_MapAccessesExclusive ==
    /\ \A w \in MapWriters : MapReaders \cup MapWriters = {w}
    /\ panic # "concurrent map access"

\* C18: the admission error for a service that is not in the registry names
\* the requested network service, whatever the request id.
C18_NotFoundNamesService ==
    \A c \in Callers :
        (/\ rc[c].pc = "done"
         /\ ~Registered(rc[c].cr))
        => \E i \in DOMAIN rc[c].reply.AdmissionError :
              rc[c].reply.AdmissionError[i] = rc[c].cr.NetworkServiceName

----------------------------------------------------------------------------
(* The watch loop *)

TableDevices == { nsmSockets[id].device : id \in DOMAIN nsmSockets }

\* C19: each round ListAndWatch sends a response holding the device of every
\* entry of the device table, one each, and it goes on unless a send to the
\* watcher fails: after a failed send the loop has terminated, so the call
\* is at no further round.
C19_WatchEndsOnSendFailure ==
    /\ watch.pc = "send" =>
          /\ { watch.resp[i] : i \in DOMAIN watch.resp } = TableDevices
          /\ Len(watch.resp) = Cardinality(DOMAIN nsmSockets)
    /\ watch.failed => watch.pc \notin {"range", "send", "sleep"}

----------------------------------------------------------------------------
(* C21 *)

DeleteStep(k) == clean[k].pc = "locked" /\ clean'[k].pc = "deleted"

\* C21: the delete step of cleanConnectionRequest(requestID) is taken by the
\* holder of the broker's lock, which no other cleaner holds; after it the
\* table has no entry for requestID, whatever services the entry listed, and
\* every other request id keeps exactly the entry it had, so the table is
\* unchanged when requestID had no entry; no other step removes an entry.
C21_CleanRemovesOnlyItsRequest ==
    [][ /\ \A k \in Cleaners :
              DeleteStep(k) =>
                  LET id == clean[k].requestID
                  IN  /\ mu = k
                      /\ mu' = k
                      /\ \A o \in Cleaners \ {k} : clean[o].pc = "idle"
                      /\ id \notin DOMAIN clientConnections'
                      /\ \A r \in RequestIds \ {id} :
                             /\ r \in DOMAIN clientConnections' <=> r \in DOMAIN clientConnections
                             /\ r \in DOMAIN clientConnections =>
                                    clientConnections'[r] = clientConnections[r]
                      /\ id \notin DOMAIN clientConnections =>
                             clientConnections' = clientConnections
        /\ DOMAIN clientConnections' # DOMAIN clientConnections =>
              \E k \in Cleaners : DeleteStep(k) ]_vars

\* a cleaner has just deleted the entry its request id had, under the lock,
\* and another request id still has its entry
C21_Witness ==
    \E k \in Cleaners :
        /\ clean[k].pc = "deleted"
        /\ clean[k].removed
        /\ mu = k
        /\ clean[k].requestID \notin DOMAIN clientConnections
        /\ clientConnections # NoTable

----------------------------------------------------------------------------
(* C22 *)

\* the Allocate calls whose stop request for device id is outstanding: being
\* sent, or sent and not yet acknowledged
StopOutstanding(id) ==
    { a \in AllocCallers :
        /\ alloc[a].pc \in {"stop", "evalAck", "ack"}
        /\ CurrentId(alloc[a]) = id }

\* the Allocate calls whose stop request for device id has been received
AwaitsAck(id) ==
    { a \in AllocCallers :
        /\ alloc[a].pc \in {"evalAck", "ack"}
        /\ CurrentId(alloc[a]) = id }

\* the server tasks of device id that hold a stop request and have not yet
\* delivered their acknowledgement
OwesAck(id) == { t \in Tasks : tasks[t].id = id /\ tasks[t].pc = "ack" }

ClosedChannelPanics == {"send on closed channel", "close of closed channel"}

\* C22: the stop handshake is an exactly-once rendezvous under concurrent
\* Allocate calls for one device id: at most one stop request is outstanding
\* per device id, every stop request that was received is held by one server
\* task of that id which owes the acknowledgement to its sender and to nobody
\* else, and nothing sends on or closes a stop channel that is closed.
C22_StopHandshakeExactlyOnce ==
    /\ panic \notin ClosedChannelPanics
    /\ \A g \in Goroutines : SendsOn(g) # 0 => ~chans[SendsOn(g)].closed
    /\ \A id \in DeviceIds :
          /\ Cardinality(StopOutstanding(id)) <= 1
          /\ Cardinality(AwaitsAck(id)) = Cardinality(OwesAck(id))

----------------------------------------------------------------------------
(* C23 *)

\* the reply call c was given came from a check made before the endpoint
\* query: the call never reached the query and holds no endpoint list
RepliedBeforeQuery(c) ==
    /\ rc'[c].pc = "done"
    /\ rc'[c].endpointList = NoList

\* C23: the checks run in the order registry lookup, dedup entry, endpoint
\* query. A request for a service missing from the registry is refused
\* not-found in the step it arrives even when the table has an entry for its
\* pair; a request for a registered service whose pair has an entry gets
\* already-exists (entry in progress) or accepted (entry completed) in the
\* step it arrives, whatever endpoints are advertised; in both cases the
\* endpoint lister is not consulted, and a call goes on to the query only
\* for a registered service whose pair has no entry.
C23_ChecksInFixedOrder ==
    [][\A c \in Callers :
        BeginStep(c) =>
            LET cr == rc'[c].cr
                dup == HasEntry(clientConnections, cr.RequestId, cr.NetworkServiceName)
            IN  /\ ~Registered(cr) =>
                      /\ RepliedBeforeQuery(c)
                      /\ rc'[c].reply = ServiceNotFoundReply(cr)
                /\ (Registered(cr) /\ dup) =>
                      /\ RepliedBeforeQuery(c)
                      /\ rc'[c].reply =
                            IF clientConnections[cr.RequestId][cr.NetworkServiceName].isInProgress
                            THEN InProgressReply(cr)
                            ELSE AcceptedReply
                /\ rc'[c].pc = "query" <=> (Registered(cr) /\ ~dup)]_vars

\* one call was refused not-found for an unregistered service whose pair has
\* an entry, and another call got the reply of its dedup entry for a
\* registered service that no endpoint is advertised for, so that the
\* query would have refused it
C23_Witness ==
    \E c1, c2 \in Callers :
        /\ rc[c1].pc = "done"
        /\ ~Registered(rc[c1].cr)
        /\ HasEntry(clientConnections, rc[c1].cr.RequestId, rc[c1].cr.NetworkServiceName)
        /\ rc[c1].reply = ServiceNotFoundReply(rc[c1].cr)
        /\ rc[c2].pc = "done"
        /\ Registered(rc[c2].cr)
        /\ HasEntry(clientConnections, rc[c2].cr.RequestId, rc[c2].cr.NetworkServiceName)
        /\ ~Advertised(rc[c2].cr)
        /\ rc[c2].reply \in {InProgressReply(rc[c2].cr), AcceptedReply}
        /\ rc[c2].endpointList = NoList

----------------------------------------------------------------------------
(* C24 *)

\* the entry of id was written by Allocate: it holds a channel made at line 338
ThroughAllocate(sockets, id) == sockets[id].stopChannel # 0

\* ListAndWatch builds its response in this step
RangeStep == watch.pc = "range" /\ watch'.pc = "send"

\* the positions of a response that report device id
ReportsOf(resp, id) == { i \in DOMAIN resp : resp[i].ID = id }

\* C24: every response ListAndWatch builds reports each device id that has
\* been through Allocate exactly once and as Healthy, whatever became of the
\* server tasks started for it (failed to start, or stopped); and no step
\* removes an entry from the device table, or turns the entry of such an id
\* back to one that has not been through Allocate or to an unhealthy device.
C24_AllocatedDevicesStayHealthy ==
    [][ /\ RangeStep =>
              \A id \in DOMAIN nsmSockets :
                  ThroughAllocate(nsmSockets, id) =>
                      /\ Cardinality(ReportsOf(watch'.resp, id)) = 1
                      /\ \A i \in ReportsOf(watch'.resp, id) :
                             watch'.resp[i].Health = "Healthy"
        /\ \A id \in DOMAIN nsmSockets :
              /\ id \in DOMAIN nsmSockets'
              /\ ThroughAllocate(nsmSockets, id) =>
                    /\ ThroughAllocate(nsmSockets', id)
                    /\ nsmSockets'[id].device = Device(id) ]_vars

\* a response was built after one server task had failed to start and
\* another had been stopped, and it reports the devices of both as Healthy
C24_Witness ==
    /\ watch.pc = "send"
    /\ watch.ended
    /\ \A t \in FailedTasks \cup StoppedTasks :
          \E i \in DOMAIN watch.resp : watch.resp[i] = Device(tasks[t].id)

----------------------------------------------------------------------------
(* The example endpoint process *)

\* the example endpoint process alone
InitNseAlone ==
    /\ InitStore
    /\ InitWatch
    /\ InitNse
    /\ networkServices = {}
    /\ endpointStore = {}
    /\ clientConnections = NoTable
    /\ InitBrokerIdle
    /\ InitSocketsIdle

NextNse ==
    \/ \E ok \in BOOLEAN : NseSetup(ok)
    \/ NseGo
    \/ NseAdd
    \/ \E ok \in BOOLEAN : NseServe(ok)
    \/ \E dialOk \in BOOLEAN : NseProbe(dialOk)
    \/ \E statOk \in BOOLEAN, dialOk \in BOOLEAN : NseConnect(statOk, dialOk)
    \/ \E outcome \in AdvertiseOutcomes : NseAdvertise(outcome)
    \/ NseWait
    \/ \E c \in NsmClients, req \in EndpointRequests : NseCall(c, req)
    \/ \E c \in NsmClients, listOk \in BOOLEAN, interfaces \in SUBSET InterfaceNames :
          NseHandle(c, listOk, interfaces)
    \/ \E c \in NsmClients : NseReturn(c)

SpecNse == InitNseAlone /\ [][NextNse]_vars

\* the goroutine of lines 196-201 has been started and has not failed
ServerRuns == nseGo \in {"add", "serve", "serving"}

\* C25: once the endpoint has been advertised and accepted, main stays at
\* wg.Wait() for as long as the goroutine that registers with the wait group
\* and serves the connection server runs: the wait does not return, and the
\* process does not end by main returning.
C25_MainWaitsForServer ==
    /\ (nseMain = "wait" /\ exited = NotExited /\ ServerRuns) => ~ENABLED NseWait
    /\ exited # "return"

====
